---- MODULE Spec2Model ----
(***************************************************************************)
(* src/lib/api/yahoo_finance.py: get_stock_data and the __main__ script.   *)
(*                                                                         *)
(* The module is either run as a script (__name__ = "__main__": resolve    *)
(* sys.argv, call get_stock_data once, print json.dumps of the result) or  *)
(* imported, in which case a caller invokes get_stock_data directly.       *)
(* ApiClient.call_api is an external capability: it returns some Python    *)
(* value or raises some failure, and nothing else is known about it.       *)
(***************************************************************************)
EXTENDS Integers, Sequences, FiniteSets, TLC

\* ------------------------------------------------------------------ bounds
\* Largest number of positional command-line arguments of a run.
MaxArgs == 4
\* Largest number of direct calls an importing caller makes.
MaxCalls == 3

\* ------------------------------------------------------- Python values
\* A Python value: kind is its type, atom the text of a scalar, items the
\* elements of a container, keys the keys of a dict (keys[i] maps to items[i]).
PyValue(kind, atom, keys, items) ==
    [kind |-> kind, atom |-> atom, keys |-> keys, items |-> items]

PyNone == PyValue("None", "None", <<>>, <<>>)
PyBool(text) == PyValue("bool", text, <<>>, <<>>)
PyInt(text) == PyValue("int", text, <<>>, <<>>)
PyFloat(text) == PyValue("float", text, <<>>, <<>>)
PyStr(text) == PyValue("str", text, <<>>, <<>>)
PyList(items) == PyValue("list", "", <<>>, items)
PyTuple(items) == PyValue("tuple", "", <<>>, items)
PySet(items) == PyValue("set", "", <<>>, items)
PyDict(keys, items) == PyValue("dict", "", keys, items)

\* A name that has not been assigned yet.
Unset == PyValue("unbound", "", <<>>, <<>>)

\* ------------------------------------------------------------ json.dumps
\* The printed text is a sequence of lexical tokens; the separators ", " and
\* ": " of the default encoder carry no newline and are the "," and ":" tokens.
Tok(cls, text) == [cls |-> cls, text |-> text]

\* float.__repr__ as the encoder uses it (allow_nan = True).
FloatToken(atom) ==
    CASE atom = "nan" -> Tok("literal", "NaN")
      [] atom = "inf" -> Tok("literal", "Infinity")
      [] atom = "-inf" -> Tok("literal", "-Infinity")
      [] OTHER -> Tok("float", atom)

\* The token of a scalar value.
ScalarToken(v) ==
    CASE v.kind = "None" -> Tok("literal", "null")
      [] v.kind = "bool" -> Tok("literal", IF v.atom = "True" THEN "true" ELSE "false")
      [] v.kind = "int" -> Tok("int", v.atom)
      [] v.kind = "float" -> FloatToken(v.atom)
      [] OTHER -> Tok("string", v.atom)

ScalarKinds == {"None", "bool", "int", "float", "str"}

\* A dict key is written as a string: str as is, the other scalars by their
\* JSON text (skipkeys = False: any other key type is a TypeError).
KeyToken(k) == Tok("string", ScalarToken(k).text)

RECURSIVE Serialisable(_)
\* json.dumps(v) does not raise TypeError.
Serialisable(v) ==
    CASE v.kind \in ScalarKinds -> TRUE
      [] v.kind \in {"list", "tuple"} ->
            \A i \in DOMAIN v.items : Serialisable(v.items[i])
      [] v.kind = "dict" ->
            /\ \A i \in DOMAIN v.keys : v.keys[i].kind \in ScalarKinds
            /\ \A i \in DOMAIN v.items : Serialisable(v.items[i])
      [] OTHER -> FALSE

RECURSIVE JsonDumps(_)
RECURSIVE DumpsItems(_, _)
RECURSIVE DumpsPairs(_, _, _)

\* The elements of a list or tuple from index i on, "," between them.
DumpsItems(items, i) ==
    IF i > Len(items) THEN <<>>
    ELSE (IF i > 1 THEN <<Tok("punct", ",")>> ELSE <<>>)
         \o JsonDumps(items[i]) \o DumpsItems(items, i + 1)

\* The members of a dict from index i on, in insertion order.
DumpsPairs(keys, items, i) ==
    IF i > Len(keys) THEN <<>>
    ELSE (IF i > 1 THEN <<Tok("punct", ",")>> ELSE <<>>)
         \o <<KeyToken(keys[i]), Tok("punct", ":")>>
         \o JsonDumps(items[i]) \o DumpsPairs(keys, items, i + 1)

\* json.dumps(v) for a serialisable v.
JsonDumps(v) ==
    CASE v.kind \in {"list", "tuple"} ->
            <<Tok("punct", "[")>> \o DumpsItems(v.items, 1) \o <<Tok("punct", "]")>>
      [] v.kind = "dict" ->
            <<Tok("punct", "{")>> \o DumpsPairs(v.keys, v.items, 1)
            \o <<Tok("punct", "}")>>
      [] OTHER -> <<ScalarToken(v)>>

\* ------------------------------------------------------------ JSON reader
\* The reading side of the round trip of C3: the program itself never parses
\* its output; a consumer of the printed line does.
\* A parse result: ok, the value read, and the index of the next token.
Parsed(ok, val, next) == [ok |-> ok, val |-> val, next |-> next]
ParseError(i) == Parsed(FALSE, PyNone, i)

IsTok(toks, i, cls, text) ==
    i <= Len(toks) /\ toks[i].cls = cls /\ toks[i].text = text

\* dict[k] = v on the pairs read so far: a repeated key keeps its place and
\* takes the last value.
DictSet(d, k, v) ==
    IF \E i \in DOMAIN d.keys : d.keys[i] = k
    THEN LET i == CHOOSE j \in DOMAIN d.keys : d.keys[j] = k
         IN PyDict(d.keys, [d.items EXCEPT ![i] = v])
    ELSE PyDict(Append(d.keys, k), Append(d.items, v))

RECURSIVE ParseValue(_, _, _)
RECURSIVE ParseElements(_, _, _, _)
RECURSIVE ParseMembers(_, _, _, _)

\* The elements of an array after "[" or ",", acc the list read so far.
ParseElements(toks, i, acc, strict) ==
    LET e == ParseValue(toks, i, strict)
    IN IF ~e.ok THEN ParseError(i)
       ELSE IF IsTok(toks, e.next, "punct", ",")
            THEN ParseElements(toks, e.next + 1, Append(acc, e.val), strict)
       ELSE IF IsTok(toks, e.next, "punct", "]")
            THEN Parsed(TRUE, PyList(Append(acc, e.val)), e.next + 1)
       ELSE ParseError(e.next)

\* The members of an object after "{" or ",", acc the dict read so far.
ParseMembers(toks, i, acc, strict) ==
    IF ~(i + 1 <= Len(toks) /\ toks[i].cls = "string"
         /\ IsTok(toks, i + 1, "punct", ":"))
    THEN ParseError(i)
    ELSE LET e == ParseValue(toks, i + 2, strict)
             d == DictSet(acc, PyStr(toks[i].text), e.val)
         IN IF ~e.ok THEN ParseError(i)
            ELSE IF IsTok(toks, e.next, "punct", ",")
                 THEN ParseMembers(toks, e.next + 1, d, strict)
            ELSE IF IsTok(toks, e.next, "punct", "}")
                 THEN Parsed(TRUE, d, e.next + 1)
            ELSE ParseError(e.next)

\* One JSON value at token i. strict is the grammar of RFC 8259; Python's
\* json.loads (strict = FALSE) also reads NaN, Infinity and -Infinity.
ParseValue(toks, i, strict) ==
    IF i > Len(toks) THEN ParseError(i)
    ELSE LET t == toks[i]
         IN CASE t.cls = "literal" /\ t.text = "null" -> Parsed(TRUE, PyNone, i + 1)
              [] t.cls = "literal" /\ t.text = "true" ->
                    Parsed(TRUE, PyBool("True"), i + 1)
              [] t.cls = "literal" /\ t.text = "false" ->
                    Parsed(TRUE, PyBool("False"), i + 1)
              [] t.cls = "literal" /\ t.text = "NaN" /\ ~strict ->
                    Parsed(TRUE, PyFloat("nan"), i + 1)
              [] t.cls = "literal" /\ t.text = "Infinity" /\ ~strict ->
                    Parsed(TRUE, PyFloat("inf"), i + 1)
              [] t.cls = "literal" /\ t.text = "-Infinity" /\ ~strict ->
                    Parsed(TRUE, PyFloat("-inf"), i + 1)
              [] t.cls = "int" -> Parsed(TRUE, PyInt(t.text), i + 1)
              [] t.cls = "float" -> Parsed(TRUE, PyFloat(t.text), i + 1)
              [] t.cls = "string" -> Parsed(TRUE, PyStr(t.text), i + 1)
              [] t.cls = "punct" /\ t.text = "[" ->
                    IF IsTok(toks, i + 1, "punct", "]")
                    THEN Parsed(TRUE, PyList(<<>>), i + 2)
                    ELSE ParseElements(toks, i + 1, <<>>, strict)
              [] t.cls = "punct" /\ t.text = "{" ->
                    IF IsTok(toks, i + 1, "punct", "}")
                    THEN Parsed(TRUE, PyDict(<<>>, <<>>), i + 2)
                    ELSE ParseMembers(toks, i + 1, PyDict(<<>>, <<>>), strict)
              [] OTHER -> ParseError(i)

\* The whole text is one JSON value.
ParsesAs(toks, strict) ==
    LET p == ParseValue(toks, 1, strict)
    IN p.ok /\ p.next = Len(toks) + 1

\* The text is valid JSON (RFC 8259).
ValidJson(toks) == ParsesAs(toks, TRUE)

\* json.loads(text), for a text it accepts.
JsonLoads(toks) == ParseValue(toks, 1, FALSE).val

RECURSIVE DeepEqual(_, _)
\* a == b in Python for values of the same type: containers element by
\* element, dicts key by key whatever the order, and nan equal to nothing.
DeepEqual(a, b) ==
    /\ a.kind = b.kind
    /\ CASE a.kind \in ScalarKinds -> a.atom = b.atom /\ a.atom # "nan"
         [] a.kind = "dict" ->
               /\ Len(a.keys) = Len(b.keys)
               /\ \A i \in DOMAIN a.keys :
                     \E j \in DOMAIN b.keys :
                        /\ a.keys[i] = b.keys[j]
                        /\ DeepEqual(a.items[i], b.items[j])
         [] OTHER ->
               /\ Len(a.items) = Len(b.items)
               /\ \A i \in DOMAIN a.items : DeepEqual(a.items[i], b.items[i])

RECURSIVE JsonNative(_)
\* v is built only from the types a JSON document has: None, bool, int,
\* finite float, str, list, and dict with str keys.
JsonNative(v) ==
    CASE v.kind = "float" -> v.atom \notin {"nan", "inf", "-inf"}
      [] v.kind \in ScalarKinds -> TRUE
      [] v.kind = "list" -> \A i \in DOMAIN v.items : JsonNative(v.items[i])
      [] v.kind = "dict" ->
            /\ \A i \in DOMAIN v.keys : v.keys[i].kind = "str"
            /\ \A i \in DOMAIN v.items : JsonNative(v.items[i])
      [] OTHER -> FALSE

\* ------------------------------------------------------------ inputs
\* sys.argv[0].
ScriptName == "yahoo_finance.py"

\* The strings tried at positional argument p (the empty string at each).
ArgChoices(p) ==
    CASE p = 1 -> {"", "AAPL", "0050.TW"}
      [] p = 2 -> {"", "1wk", "3d"}
      [] p = 3 -> {"", "5y", "1wk"}
      [] OTHER -> {"", "max"}

ArgStrings == UNION {ArgChoices(p) : p \in 1..4}

\* The argument lists of a run: 0 to MaxArgs positional arguments.
ArgLists ==
    UNION {{a \in [1..k -> ArgStrings] : \A p \in 1..k : a[p] \in ArgChoices(p)} :
           k \in 0..MaxArgs}

\* A parameter the caller left out of a direct call.
Omitted == "<omitted>"

\* The arguments of a direct call get_stock_data(...), any of them omitted.
DirectArgs ==
    [symbol : {Omitted, "AAPL"}, interval : {Omitted, "3d"}, range : {Omitted, "5y"}]

\* A provider answer as the docstring describes it: a nested dict.
ChartResponse ==
    PyDict(<<PyStr("chart")>>,
           <<PyDict(<<PyStr("result"), PyStr("error")>>,
                    <<PyList(<<PyInt("1"), PyFloat("1.5"), PyStr("a"),
                               PyBool("True")>>),
                      PyNone>>)>>)

\* The values call_api is tried with: JSON-shaped ones, and Python values
\* that JSON text cannot carry (tuple, int key, clashing keys, nan, set).
Responses ==
    { ChartResponse,
      PyDict(<<>>, <<>>),
      PyStr("a"),
      PyDict(<<PyStr("a")>>, <<PyTuple(<<PyInt("1")>>)>>),
      PyDict(<<PyInt("1")>>, <<PyStr("a")>>),
      PyDict(<<PyInt("1"), PyStr("1")>>, <<PyStr("a"), PyStr("b")>>),
      PyDict(<<PyStr("a")>>, <<PyFloat("nan")>>),
      PyDict(<<PyStr("a")>>, <<PySet(<<>>)>>) }

\* The failures call_api is tried with.
Failures == {"ConnectionError", "ProviderError"}

\* ------------------------------------------------------------- state
VARIABLES
    name,         \* __name__: "__main__" when run as a script
    argv,         \* sys.argv, argv[1] being sys.argv[0]
    pc,           \* the statement about to run
    symbol,       \* the script's variable symbol
    interval,     \* the script's variable interval
    range_param,  \* the script's variable range_param
    frame,        \* the parameters of the running get_stock_data call
    calls,        \* the outbound call_api calls made so far
    response,     \* get_stock_data's local: what call_api returned
    raised,       \* the failure call_api raised in the running call
    data,         \* the script's variable data
    stdout,       \* the lines printed, each a token sequence
    exc,          \* the uncaught exception that ended the process
    invocations   \* the get_stock_data calls made: arguments and outcome

vars ==
    <<name, argv, pc, symbol, interval, range_param, frame, calls, response,
      raised, data, stdout, exc, invocations>>

NoFrame == [symbol |-> Omitted, interval |-> Omitted, range |-> Omitted]
Unbound == "<unbound>"

Init ==
    /\ name \in {"__main__", "yahoo_finance"}
    /\ argv \in IF name = "__main__"
                THEN {<<ScriptName>> \o a : a \in ArgLists}
                ELSE {<<"caller.py">>}
    /\ pc = IF name = "__main__" THEN "main_symbol" ELSE "caller"
    /\ symbol = Unbound
    /\ interval = Unbound
    /\ range_param = Unbound
    /\ frame = NoFrame
    /\ calls = <<>>
    /\ response = Unset
    /\ raised = "none"
    /\ data = Unset
    /\ stdout = <<>>
    /\ exc = "none"
    /\ invocations = <<>>

\* ------------------------------------------------------- get_stock_data
Endpoint == "YahooFinance/get_stock_chart"

\* Mutant of Query: the region follows the symbol's exchange suffix.
QueryRegionBySuffix(s, i, r) ==
    [symbol |-> s, interval |-> i, range |-> r,
     region |-> IF s \in {"0050.TW", "2330.TW"} THEN "TW" ELSE "US",
     includeAdjustedClose |-> TRUE]

\* Mutant of Query: one query mapping kept between calls, its interval
\* written only when the caller's differs from the default.
QueryKeptBetweenCalls(s, i, r) ==
    [symbol |-> s,
     interval |-> IF i = "1d" /\ calls # <<>>
                  THEN calls[Len(calls)].query.interval ELSE i,
     range |-> r, region |-> "TW", includeAdjustedClose |-> TRUE]

\* The query mapping of lines 21-27.
Query(s, i, r) ==
    [symbol |-> s, interval |-> i, range |-> r, region |-> "TW",
     includeAdjustedClose |-> TRUE]

\* Mutant of Bind: the interval is checked against the docstring's list.
BindValidated(args) ==
    IF args.symbol = Omitted
    THEN [raises |-> "TypeError", frame |-> NoFrame]
    ELSE IF args.interval \notin
              {Omitted, "1m", "2m", "5m", "15m", "30m", "60m", "1d", "1wk", "1mo"}
    THEN [raises |-> "ValueError", frame |-> NoFrame]
    ELSE [raises |-> "none",
          frame |-> [symbol |-> args.symbol,
                     interval |-> IF args.interval = Omitted THEN "1d"
                                  ELSE args.interval,
                     range |-> IF args.range = Omitted THEN "1y"
                               ELSE args.range]]

\* Mutant of Bind: symbol has the script's default ticker as its default.
BindSymbolDefault(args) ==
    [raises |-> "none",
     frame |-> [symbol |-> IF args.symbol = Omitted THEN "2330.TW"
                           ELSE args.symbol,
                interval |-> IF args.interval = Omitted THEN "1d"
                             ELSE args.interval,
                range |-> IF args.range = Omitted THEN "1y" ELSE args.range]]

\* Binding the arguments of a call to the parameters of line 6: symbol has
\* no default, interval and range have.
Bind(args) ==
    IF args.symbol = Omitted
    THEN [raises |-> "TypeError", frame |-> NoFrame]
    ELSE [raises |-> "none",
          frame |-> [symbol |-> args.symbol,
                     interval |-> IF args.interval = Omitted THEN "1d"
                                  ELSE args.interval,
                     range |-> IF args.range = Omitted THEN "1y"
                               ELSE args.range]]

\* The running invocation ends with outcome o.
Finish(o) == [invocations EXCEPT ![Len(invocations)].outcome = o]

\* An exception e leaves get_stock_data: nothing in the file catches it, so
\* it ends the script, or reaches the importing caller.
Uncaught(e) ==
    IF name = "__main__"
    THEN /\ exc' = e
         /\ pc' = "exited"
    ELSE /\ exc' = exc
         /\ pc' = "caller"

\* get_stock_data(args) is called.
Enter(args) ==
    LET b == Bind(args)
    IN /\ response' = Unset
       /\ raised' = "none"
       /\ frame' = b.frame
       /\ IF b.raises = "none"
          THEN /\ invocations' = Append(invocations, [args |-> args, outcome |-> "running"])
               /\ pc' = "gsd_call_api"
               /\ exc' = exc
          ELSE /\ invocations' = Append(invocations, [args |-> args, outcome |-> b.raises])
               /\ Uncaught(b.raises)

\* Lines 18-27: a fresh client, and the one call_api call.
GetStockDataCallApi ==
    /\ pc = "gsd_call_api"
    /\ calls' = Append(calls, [endpoint |-> Endpoint,
                               query |-> Query(frame.symbol, frame.interval, frame.range),
                               inv |-> Len(invocations)])
    /\ pc' = "api_wait"
    /\ UNCHANGED <<name, argv, symbol, interval, range_param, frame, response,
                   raised, data, stdout, exc, invocations>>

\* call_api returns v, bound to response (line 21).
ApiReturns(v) ==
    /\ pc = "api_wait"
    /\ response' = v
    /\ pc' = "gsd_return"
    /\ UNCHANGED <<name, argv, symbol, interval, range_param, frame, calls,
                   raised, data, stdout, exc, invocations>>

\* call_api raises f.
ApiRaises(f) ==
    /\ pc = "api_wait"
    /\ raised' = f
    /\ pc' = "gsd_raised"
    /\ UNCHANGED <<name, argv, symbol, interval, range_param, frame, calls,
                   response, data, stdout, exc, invocations>>

\* Mutant of Propagate: a failed call is tried once more.
PropagateRetry ==
    /\ pc = "gsd_raised"
    /\ IF Cardinality({j \in DOMAIN calls : calls[j].inv = Len(invocations)}) < 2
       THEN /\ pc' = "gsd_call_api"
            /\ UNCHANGED <<invocations, frame, exc>>
       ELSE /\ invocations' = Finish(raised)
            /\ frame' = NoFrame
            /\ Uncaught(raised)
    /\ UNCHANGED <<name, argv, symbol, interval, range_param, calls, response,
                   raised, data, stdout>>

\* Mutant of Propagate: the failure is caught and raised again as an error
\* of the program's own.
PropagateWrapped ==
    /\ pc = "gsd_raised"
    /\ invocations' = Finish("RuntimeError")
    /\ frame' = NoFrame
    /\ Uncaught("RuntimeError")
    /\ UNCHANGED <<name, argv, symbol, interval, range_param, calls, response,
                   raised, data, stdout>>

\* The failure passes through lines 21 and 51: no try statement encloses them.
Propagate ==
    /\ pc = "gsd_raised"
    /\ invocations' = Finish(raised)
    /\ frame' = NoFrame
    /\ Uncaught(raised)
    /\ UNCHANGED <<name, argv, symbol, interval, range_param, calls, response,
                   raised, data, stdout>>

\* Mutant of GetStockDataReturn: the return statement is missing.
GetStockDataReturnsNone ==
    /\ pc = "gsd_return"
    /\ invocations' = Finish("returned")
    /\ frame' = NoFrame
    /\ IF name = "__main__"
       THEN /\ data' = PyNone
            /\ pc' = "main_print"
       ELSE /\ data' = data
            /\ pc' = "caller"
    /\ UNCHANGED <<name, argv, symbol, interval, range_param, calls, response,
                   raised, stdout, exc>>

\* Line 29: return response; the script binds it to data (line 51).
GetStockDataReturn ==
    /\ pc = "gsd_return"
    /\ invocations' = Finish("returned")
    /\ frame' = NoFrame
    /\ IF name = "__main__"
       THEN /\ data' = response
            /\ pc' = "main_print"
       ELSE /\ data' = data
            /\ pc' = "caller"
    /\ UNCHANGED <<name, argv, symbol, interval, range_param, calls, response,
                   raised, stdout, exc>>

\* --------------------------------------------------------------- __main__
\* sys.argv[i].
SysArgv(i) == argv[i + 1]

\* Lines 33-36.
MainSymbol ==
    /\ pc = "main_symbol"
    /\ symbol' = IF Len(argv) >= 2 THEN SysArgv(1) ELSE "2330.TW"
    /\ pc' = "main_interval"
    /\ UNCHANGED <<name, argv, interval, range_param, frame, calls, response,
                   raised, data, stdout, exc, invocations>>

\* Mutant of MainInterval: the index copied from the symbol's branch.
MainIntervalFromSymbol ==
    /\ pc = "main_interval"
    /\ interval' = IF Len(argv) >= 3 THEN SysArgv(1) ELSE "1d"
    /\ pc' = "main_range"
    /\ UNCHANGED <<name, argv, symbol, range_param, frame, calls, response,
                   raised, data, stdout, exc, invocations>>

\* Lines 39-42.
MainInterval ==
    /\ pc = "main_interval"
    /\ interval' = IF Len(argv) >= 3 THEN SysArgv(2) ELSE "1d"
    /\ pc' = "main_range"
    /\ UNCHANGED <<name, argv, symbol, range_param, frame, calls, response,
                   raised, data, stdout, exc, invocations>>

\* Mutant of MainRange: the range is the last argument, sys.argv[-1].
MainRangeLast ==
    /\ pc = "main_range"
    /\ range_param' = IF Len(argv) >= 4 THEN argv[Len(argv)] ELSE "1y"
    /\ pc' = "main_call"
    /\ UNCHANGED <<name, argv, symbol, interval, frame, calls, response,
                   raised, data, stdout, exc, invocations>>

\* Lines 45-48.
MainRange ==
    /\ pc = "main_range"
    /\ range_param' = IF Len(argv) >= 4 THEN SysArgv(3) ELSE "1y"
    /\ pc' = "main_call"
    /\ UNCHANGED <<name, argv, symbol, interval, frame, calls, response,
                   raised, data, stdout, exc, invocations>>

\* Line 51: get_stock_data(symbol, interval, range_param).
MainCall ==
    /\ pc = "main_call"
    /\ Enter([symbol |-> symbol, interval |-> interval, range |-> range_param])
    /\ UNCHANGED <<name, argv, symbol, interval, range_param, calls, data, stdout>>

\* Mutant of MainPrint: the response is printed twice.
MainPrintTwice ==
    /\ pc = "main_print"
    /\ IF Serialisable(data)
       THEN /\ stdout' = stdout \o <<JsonDumps(data), JsonDumps(data)>>
            /\ pc' = "main_end"
            /\ exc' = exc
       ELSE /\ stdout' = stdout
            /\ pc' = "exited"
            /\ exc' = "TypeError"
    /\ UNCHANGED <<name, argv, symbol, interval, range_param, frame, calls,
                   response, raised, data, invocations>>

\* Line 54: print(json.dumps(data)); json.dumps raises TypeError on a value
\* it cannot serialise, and then nothing is printed.
MainPrint ==
    /\ pc = "main_print"
    /\ IF Serialisable(data)
       THEN /\ stdout' = Append(stdout, JsonDumps(data))
            /\ pc' = "main_end"
            /\ exc' = exc
       ELSE /\ stdout' = stdout
            /\ pc' = "exited"
            /\ exc' = "TypeError"
    /\ UNCHANGED <<name, argv, symbol, interval, range_param, frame, calls,
                   response, raised, data, invocations>>

\* The end of the file: the process exits.
MainExit ==
    /\ pc = "main_end"
    /\ pc' = "exited"
    /\ UNCHANGED <<name, argv, symbol, interval, range_param, frame, calls,
                   response, raised, data, stdout, exc, invocations>>

\* ------------------------------------------------------ importing caller
\* A caller of the imported module calls get_stock_data with some arguments.
CallerCall ==
    /\ pc = "caller"
    /\ Len(invocations) < MaxCalls
    /\ \E args \in DirectArgs : Enter(args)
    /\ UNCHANGED <<name, argv, symbol, interval, range_param, calls, data, stdout>>

Next ==
    \/ MainSymbol
    \/ MainInterval
    \/ MainRange
    \/ MainCall
    \/ CallerCall
    \/ GetStockDataCallApi
    \/ \E v \in Responses : ApiReturns(v)
    \/ \E f \in Failures : ApiRaises(f)
    \/ Propagate
    \/ GetStockDataReturn
    \/ MainPrint
    \/ MainExit

Spec == Init /\ [][Next]_vars

\* The interpreter keeps running the program's own statements; whether
\* call_api ever answers, and whether a caller calls again, is not assured.
Program ==
    \/ MainSymbol
    \/ MainInterval
    \/ MainRange
    \/ MainCall
    \/ GetStockDataCallApi
    \/ Propagate
    \/ GetStockDataReturn
    \/ MainPrint
    \/ MainExit

FairSpec == Spec /\ WF_vars(Program)

\* ================================================================ claims
Script == name = "__main__"

\* The outbound calls made by invocation i.
CallsOf(i) == {j \in DOMAIN calls : calls[j].inv = i}

\* Invocation i has passed its call_api statement.
Called(i) ==
    /\ invocations[i].outcome # "TypeError"
    /\ i < Len(invocations) \/ pc # "gsd_call_api"

QueryFields == {"symbol", "interval", "range", "region", "includeAdjustedClose"}

\* C1: every query handed to call_api has region = "TW" and
\* includeAdjustedClose = true, next to symbol, interval and range, whatever
\* the inputs were.
C1_FixedFields ==
    \A j \in DOMAIN calls :
        /\ DOMAIN calls[j].query = QueryFields
        /\ calls[j].query.region = "TW"
        /\ calls[j].query.includeAdjustedClose = TRUE

C1_Witness ==
    \E j \in DOMAIN calls :
        /\ calls[j].query.symbol = "AAPL"
        /\ calls[j].query.interval = "3d"
        /\ calls[j].query.region = "TW"

\* C2: a script run with k <= 3 positional arguments fills symbol, interval
\* and range positionally: the first k verbatim (the empty string included),
\* the rest with the defaults "2330.TW", "1d", "1y".
C2_Positional ==
    (Script /\ Len(argv) <= 4 /\ calls # <<>>) =>
        /\ calls[1].query =
              [symbol |-> IF Len(argv) >= 2 THEN argv[2] ELSE "2330.TW",
               interval |-> IF Len(argv) >= 3 THEN argv[3] ELSE "1d",
               range |-> IF Len(argv) >= 4 THEN argv[4] ELSE "1y",
               region |-> "TW", includeAdjustedClose |-> TRUE]
        /\ argv = <<ScriptName>> =>
              /\ calls[1].query.symbol = "2330.TW"
              /\ calls[1].query.interval = "1d"
              /\ calls[1].query.range = "1y"
        /\ argv = <<ScriptName, "AAPL">> =>
              /\ calls[1].query.symbol = "AAPL"
              /\ calls[1].query.interval = "1d"
              /\ calls[1].query.range = "1y"

C2_Witness ==
    /\ Script
    /\ argv = <<ScriptName, "0050.TW", "1wk", "5y">>
    /\ calls # <<>>
    /\ calls[1].query =
          [symbol |-> "0050.TW", interval |-> "1wk", range |-> "5y",
           region |-> "TW", includeAdjustedClose |-> TRUE]

\* The script is past line 54 after call_api returned a value.
PastPrint == Script /\ response # Unset /\ pc \in {"main_end", "exited"}

\* The one printed line is valid JSON that reads back as v.
PrintsExactly(v) ==
    /\ Len(stdout) = 1
    /\ ValidJson(stdout[1])
    /\ ParsesAs(stdout[1], FALSE)
    /\ DeepEqual(JsonLoads(stdout[1]), v)

\* C3 as stated: for every value call_api returns, get_stock_data returns
\* it unmodified and the printed text is valid JSON that parses to a value
\* deep-equal to it.
C3_EveryValueRoundTrips ==
    PastPrint => (data = response /\ PrintsExactly(response))

\* C3 amended: get_stock_data returns every value unmodified, and for a
\* value built only from None, bool, int, finite float, str, list and dict
\* with str keys the printed text is valid JSON that parses to a value
\* deep-equal to it.
C3_JsonNativeRoundTrips ==
    /\ (Script /\ response # Unset /\ pc \in {"main_print", "main_end", "exited"})
          => data = response
    /\ (PastPrint /\ JsonNative(response)) => PrintsExactly(response)

C3_Witness ==
    /\ Script
    /\ pc = "exited"
    /\ response = ChartResponse
    /\ Len(stdout) = 1
    /\ JsonLoads(stdout[1]).kind = "dict"

\* C4: no argument is validated locally: an invocation given a symbol is
\* never rejected by the program, reaches call_api, and its query carries
\* the supplied values as they are; a script run always makes the call.
C4_NoLocalValidation ==
    /\ \A i \in DOMAIN invocations :
          LET a == invocations[i].args
          IN a.symbol # Omitted =>
                /\ invocations[i].outcome \in {"running", "returned"} \cup Failures
                /\ Called(i) =>
                      \E j \in CallsOf(i) :
                          /\ calls[j].query.symbol = a.symbol
                          /\ a.interval # Omitted => calls[j].query.interval = a.interval
                          /\ a.range # Omitted => calls[j].query.range = a.range
    /\ (Script /\ pc = "exited") =>
          /\ Len(calls) = 1
          /\ Len(argv) >= 2 => calls[1].query.symbol = argv[2]
          /\ Len(argv) >= 3 => calls[1].query.interval = argv[3]
          /\ Len(argv) >= 4 => calls[1].query.range = argv[4]

C4_Witness ==
    /\ Script
    /\ pc = "exited"
    /\ Len(calls) = 1
    /\ calls[1].query.symbol = "AAPL"
    /\ calls[1].query.interval = "3d"
    /\ calls[1].query.range = "1wk"

\* C5: every outbound call goes to 'YahooFinance/get_stock_chart'; an
\* invocation of get_stock_data never makes more than one, and has made
\* exactly one when it returns or fails in the call; a script run never
\* makes more than one in total.
C5_OneOutboundCall ==
    /\ \A j \in DOMAIN calls :
          /\ calls[j].endpoint = "YahooFinance/get_stock_chart"
          /\ calls[j].inv \in DOMAIN invocations
    /\ \A i \in DOMAIN invocations :
          /\ Cardinality(CallsOf(i)) <= 1
          /\ invocations[i].outcome \in {"returned"} \cup Failures
                => Cardinality(CallsOf(i)) = 1
    /\ Script => Len(calls) <= 1
    /\ (Script /\ pc = "exited") => Len(calls) = 1

C5_Witness ==
    /\ Script
    /\ pc = "exited"
    /\ exc \in Failures
    /\ Len(calls) = 1
    /\ calls[1].endpoint = "YahooFinance/get_stock_chart"

\* C6: a failure raised by call_api leaves get_stock_data and the script as
\* that same failure: no second call, no error of the program's own in its
\* place, nothing printed.
C6_FailurePropagates ==
    raised # "none" =>
        /\ pc \in {"gsd_raised", "exited", "caller"}
        /\ stdout = <<>>
        /\ Cardinality(CallsOf(Len(invocations))) = 1
        /\ pc # "gsd_raised" => invocations[Len(invocations)].outcome = raised
        /\ (Script /\ pc = "exited") =>
              /\ exc = raised
              /\ data = Unset
              /\ Len(calls) = 1

C6_Witness ==
    /\ Script
    /\ pc = "exited"
    /\ raised = "ProviderError"
    /\ exc = "ProviderError"
    /\ stdout = <<>>

\* The query of a call with arguments a, symbolDefault used for an omitted
\* symbol.
QueryFor(a, symbolDefault) ==
    [symbol |-> IF a.symbol = Omitted THEN symbolDefault ELSE a.symbol,
     interval |-> IF a.interval = Omitted THEN "1d" ELSE a.interval,
     range |-> IF a.range = Omitted THEN "1y" ELSE a.range,
     region |-> "TW", includeAdjustedClose |-> TRUE]

\* C7 as stated: symbol, interval and range are all optional on a direct
\* call: with any of them omitted the call still builds one query, each
\* omitted parameter at its default ("2330.TW", "1d", "1y").
C7_AllOptional ==
    \A i \in DOMAIN invocations :
        /\ invocations[i].outcome # "TypeError"
        /\ Called(i) =>
              /\ Cardinality(CallsOf(i)) = 1
              /\ \A j \in CallsOf(i) :
                    calls[j].query = QueryFor(invocations[i].args, "2330.TW")

\* C7 amended: interval and range are optional on a direct call and take
\* the defaults "1d" and "1y" in the single query built; symbol is required:
\* a call that omits it raises TypeError and makes no outbound call.
C7_SymbolRequired ==
    \A i \in DOMAIN invocations :
        LET a == invocations[i].args
        IN IF a.symbol = Omitted
           THEN /\ invocations[i].outcome = "TypeError"
                /\ CallsOf(i) = {}
           ELSE /\ invocations[i].outcome # "TypeError"
                /\ Called(i) =>
                      /\ Cardinality(CallsOf(i)) = 1
                      /\ \A j \in CallsOf(i) : calls[j].query = QueryFor(a, a.symbol)

C7_Witness ==
    /\ ~Script
    /\ \E i \in DOMAIN invocations :
          /\ invocations[i].args =
                [symbol |-> "AAPL", interval |-> Omitted, range |-> Omitted]
          /\ \E j \in CallsOf(i) :
                calls[j].query.interval = "1d" /\ calls[j].query.range = "1y"
    /\ \E i \in DOMAIN invocations :
          /\ invocations[i].args.symbol = Omitted
          /\ invocations[i].outcome = "TypeError"

C8_Order ==
    Script =>
        /\ Len(calls) <= 1
        /\ calls # <<>> =>
              /\ symbol # Unbound
              /\ interval # Unbound
              /\ range_param # Unbound
        /\ response # Unset => Len(calls) = 1
        /\ stdout # <<>> =>
              /\ response # Unset
              /\ Serialisable(response)
              /\ stdout = <<JsonDumps(response)>>
              /\ pc \in {"main_end", "exited"}
        /\ (pc = "exited" /\ response # Unset /\ Serialisable(response)) =>
              /\ Len(stdout) = 1
              /\ exc = "none"

C9_NoRetainedState ==
    \A j1, j2 \in DOMAIN calls :
        invocations[calls[j1].inv].args = invocations[calls[j2].inv].args
            => calls[j1].query = calls[j2].query

C9_Witness ==
    /\ Len(calls) = 3
    /\ invocations[calls[1].inv].args = invocations[calls[3].inv].args
    /\ invocations[calls[2].inv].args # invocations[calls[1].inv].args
    /\ invocations[calls[1].inv].outcome \in Failures
    /\ invocations[calls[2].inv].outcome = "returned"
    /\ calls[1].query = calls[3].query

\* C10: positional arguments after the third are ignored by a script run: no
\* rejection, at most one call, and the query is that of the first three.
C10_ExtraIgnored ==
    (Script /\ Len(argv) > 4) =>
        /\ Len(calls) <= 1
        /\ exc \in {"none", "TypeError"} \cup Failures
        /\ exc = "TypeError" => response # Unset
        /\ pc = "exited" => Len(calls) = 1
        /\ calls # <<>> =>
              calls[1].query =
                 [symbol |-> argv[2], interval |-> argv[3], range |-> argv[4],
                  region |-> "TW", includeAdjustedClose |-> TRUE]

C10_Witness ==
    /\ Script
    /\ Len(argv) = 5
    /\ argv[4] = "5y"
    /\ argv[5] = "max"
    /\ pc = "exited"
    /\ calls[1].query.range = "5y"

====
